---- MODULE Spec2Model ----
(***************************************************************************)
(* Model of the geospatial ETL pipeline of data-engineering-for-gies:      *)
(*   3_integrate.py  spatial join, max-overlap selection, overlap gate,    *)
(*                   treatment merge, zonal statistics, fold, export       *)
(*   1_boundary.py   geoBoundariesDataset (dl_gb_item, main)               *)
(*   2_landcover.py  ESALandcover (download, process, main)                *)
(*                                                                         *)
(* Geometry is planar geometry on a strip of NCells closed unit cells: a   *)
(* polygon is a non-empty interval of cells, its area the number of cells, *)
(* and two polygons intersect when they share a cell or an edge.           *)
(* A raster has one pixel per cell.                                        *)
(*                                                                         *)
(* A dataframe is [cols |-> sequence of column names, rows |-> sequence of *)
(* records].  Every cell value is a tuple: <<x>> holds x, <<>> is NaN, and *)
(* an overlap fraction n/d is <<n, d>>.                                    *)
(***************************************************************************)
EXTENDS Integers, Sequences, FiniteSets, TLC

\* ---------------------------------------------------------------- bounds
NCells == 3
MaxTreat == 2
MaxYears == 2
MaxRuns == 2

\* ---------------------------------------------------------------- values
NaN == <<>>

V(x) == <<x>>

isna(v) == Len(v) = 0

Range(s) == {s[i] : i \in DOMAIN s}

RECURSIVE Flatten(_)
Flatten(ss) == IF Len(ss) = 0 THEN <<>> ELSE Head(ss) \o Flatten(Tail(ss))

NoDuplicates(s) == \A i, j \in DOMAIN s : s[i] = s[j] => i = j

EmptyFrame == [cols |-> <<>>, rows |-> <<>>]

\* ------------------------------------------------------------- geometry
Cells == 1 .. NCells

Polygons == {lo .. hi : lo \in Cells, hi \in Cells} \ {{}}

Area(g) == Cardinality(g)

Intersection(g, h) == g \cap h

\* the "intersects" predicate: the closed cells share at least one point
Intersects(g, h) == \E a \in g, b \in h : a - b \in {-1, 0, 1}

\* ------------------------------------------------------ overlap fraction
OverlapFraction(g, h) == <<Area(Intersection(g, h)), Area(g)>>

FracLess(a, b) == a[1] * b[2] < b[1] * a[2]

FracEq(a, b) == a[1] * b[2] = b[1] * a[2]

\* f > 0.5
AboveHalf(f) == 2 * f[1] > f[2]

\* ------------------------------------------------------ dataframe tools
DropColumns(t, names) ==
    LET keep == SelectSeq(t.cols, LAMBDA c : c \notin names)
    IN  [cols |-> keep,
         rows |-> [i \in DOMAIN t.rows |-> [c \in Range(keep) |-> t.rows[i][c]]]]

SelectColumns(t, keep) ==
    [cols |-> keep,
     rows |-> [i \in DOMAIN t.rows |-> [c \in Range(keep) |-> t.rows[i][c]]]]

\* DataFrame.fillna (line 108)
fillna(t, value) ==
    [cols |-> t.cols,
     rows |-> [i \in DOMAIN t.rows |->
                 [c \in DOMAIN t.rows[i] |->
                    IF isna(t.rows[i][c]) THEN V(value) ELSE t.rows[i][c]]]]

\* pandas merge: rows of left in order, each with its matching rows of right
\* in order; how = "left" keeps an unmatched left row with NaN on the right;
\* a non-key column name on both sides gets the suffixes.
Merge(left, right, how, lkey, rkey, lsuf, rsuf) ==
    LET rcols  == IF lkey = rkey
                  THEN SelectSeq(right.cols, LAMBDA c : c # rkey)
                  ELSE right.cols
        common == Range(left.cols) \cap Range(rcols)
        LN(c)  == IF c \in common THEN c \o lsuf ELSE c
        RN(c)  == IF c \in common THEN c \o rsuf ELSE c
        LRow(l)    == [n \in {LN(c) : c \in DOMAIN l} |-> l[CHOOSE c \in DOMAIN l : LN(c) = n]]
        RRow(r)    == [n \in {RN(c) : c \in Range(rcols)} |->
                         r[CHOOSE c \in Range(rcols) : RN(c) = n]]
        Join(l, r) == LRow(l) @@ RRow(r)
        NaNRow == [c \in Range(right.cols) |-> NaN]
        Matches(l) == SelectSeq(right.rows, LAMBDA r : r[rkey] = l[lkey])
        RowsFor(l) ==
            IF Len(Matches(l)) = 0
            THEN IF how = "left" THEN <<Join(l, NaNRow)>> ELSE <<>>
            ELSE [k \in DOMAIN Matches(l) |-> Join(l, Matches(l)[k])]
    IN  [cols |-> [i \in DOMAIN left.cols |-> LN(left.cols[i])]
                  \o [i \in DOMAIN rcols |-> RN(rcols[i])],
         rows |-> Flatten([i \in DOMAIN left.rows |-> RowsFor(left.rows[i])])]

\* ------------------------------------------------------------ variables
VARIABLES
    adm2_file,       \* geoBoundaries-GHA-ADM2.geojson
    adm1_file,       \* geoBoundaries-GHA-ADM1.geojson
    treatment_file,  \* the treatment csv
    years,           \* config["landcover"]["years"]
    raster_files,    \* year -> esa_lc_{year}.tif (pixel codes per cell) or Missing
    pc,              \* position of 3_integrate.py
    err,             \* the exception that ended the run, "" if none
    adm2_gdf, adm1_gdf, treatment_df, results, output_gdf,
    csv_out,         \* ghana_adm2_data.csv as written by this run, or NoFile
    geojson_out,     \* ghana_adm2_data.geojson as written by this run, or NoFile
    bfiles,          \* files under the geoBoundaries output directory: <<fname, suffix>>
    overwrite_existing, dl_iso3_list,   \* config["boundary"]
    ingest_items,    \* the list prepare() returned
    bpc,             \* position of geoBoundariesDataset.main
    bitem,           \* index of the item the loop of main is at
    bdownloads,      \* fname -> number of downloads dl_gb_item started
    bruns,           \* number of runs of 1_boundary.py so far
    blog,            \* the last message dl_gb_item logged at info or error level
    lfiles,          \* files under the esa_landcover directory: <<year, kind>>
    overwrite_download, overwrite_processing,   \* config["landcover"]
    lpc,             \* position of ESALandcover.main
    lyear,           \* index of the year the current loop of main is at
    lruns            \* number of runs of 2_landcover.py so far

ivars == <<adm2_file, adm1_file, treatment_file, years, raster_files, pc, err,
           adm2_gdf, adm1_gdf, treatment_df, results, output_gdf, csv_out,
           geojson_out>>

bvars == <<bfiles, overwrite_existing, dl_iso3_list, ingest_items, bpc, bitem,
           bdownloads, bruns, blog>>

lvars == <<lfiles, overwrite_download, overwrite_processing, lpc, lyear, lruns>>

fvars == <<bvars, lvars>>

vars == <<ivars, fvars>>

inputs == <<adm2_file, adm1_file, treatment_file, years, raster_files>>

\* ------------------------------------------------------- boundary layers
FineIds == <<"A", "B">>

CoarseIds == <<"X", "Y">>

BoundaryColumns == <<"shapeName", "shapeISO", "shapeID", "shapeGroup", "shapeType", "geometry">>

LayerFile(ids, geoms) ==
    [cols |-> BoundaryColumns,
     rows |-> [i \in DOMAIN ids |->
                 [shapeName |-> V(ids[i]), shapeISO |-> V("GHA"), shapeID |-> V(ids[i]),
                  shapeGroup |-> V("GHA"), shapeType |-> V("ADM"),
                  geometry |-> V(geoms[i])]]]

\* sjoin(how="inner", predicate="intersects"): one row per intersecting
\* (left, right) pair, ordered by left row and then right row; the left
\* geometry is kept, the right index becomes index_{rsuffix}, and a column
\* name on both sides gets the suffixes.
sjoin(left, right, lsuffix, rsuffix) ==
    LET rcols  == SelectSeq(right.cols, LAMBDA c : c # "geometry")
        common == Range(left.cols) \cap Range(rcols)
        LN(c)  == IF c \in common THEN c \o "_" \o lsuffix ELSE c
        RN(c)  == IF c \in common THEN c \o "_" \o rsuffix ELSE c
        idx    == "index_" \o rsuffix
        n      == Len(left.rows)
        m      == Len(right.rows)
        pairs  == SelectSeq([k \in 1 .. n * m |-> <<((k - 1) \div m) + 1, ((k - 1) % m) + 1>>],
                            LAMBDA p : Intersects(left.rows[p[1]].geometry[1],
                                                  right.rows[p[2]].geometry[1]))
        LRow(l) == [x \in {LN(c) : c \in DOMAIN l} |-> l[CHOOSE c \in DOMAIN l : LN(c) = x]]
        RRow(r) == [x \in {RN(c) : c \in Range(rcols)} |->
                      r[CHOOSE c \in Range(rcols) : RN(c) = x]]
        Row(p)  == LRow(left.rows[p[1]]) @@ (idx :> V(p[2])) @@ RRow(right.rows[p[2]])
    IN  [cols |-> [i \in DOMAIN left.cols |-> LN(left.cols[i])] \o <<idx>>
                  \o [i \in DOMAIN rcols |-> RN(rcols[i])],
         rows |-> [k \in DOMAIN pairs |-> Row(pairs[k])]]

\* line 57
overlap_adm1(x) == OverlapFraction(x.geometry[1], x.geometry_adm1[1])

\* lines 38-57: both layers loaded and projected, every intersecting pair
\* with the fraction of the ADM2 polygon that lies in the ADM1 polygon
JoinedFrame(a2, a1) ==
    LET j == sjoin(a2, a1, "adm2", "adm1")
        m == Merge(j, SelectColumns(a1, <<"shapeID", "geometry">>), "left",
                   "shapeID_adm1", "shapeID", "", "_adm1")
    IN  DropColumns(m, {"index_adm1", "shapeID"})

\* line 57: the new column
WithOverlap(t) ==
    [cols |-> Append(t.cols, "overlap_adm1"),
     rows |-> [i \in DOMAIN t.rows |->
                 t.rows[i] @@ ("overlap_adm1" :> overlap_adm1(t.rows[i]))]]

SpatialJoinFrame(a2, a1) == WithOverlap(JoinedFrame(a2, a1))

\* sorted order of the group keys (Python string order)
KeyOrder == FineIds

\* idxmax returning the last row holding the maximum
idxmax_last(t, idxs, col) ==
    CHOOSE i \in idxs :
        \A j \in idxs : /\ ~FracLess(t.rows[i][col], t.rows[j][col])
                        /\ (FracEq(t.rows[i][col], t.rows[j][col]) => i >= j)

\* Series.idxmax of one group: the first row holding the maximum
idxmax(t, idxs, col) ==
    CHOOSE i \in idxs :
        \A j \in idxs : /\ ~FracLess(t.rows[i][col], t.rows[j][col])
                        /\ (FracEq(t.rows[i][col], t.rows[j][col]) => i <= j)

\* line 61: df.loc[df.groupby(key)[col].idxmax()], groups in sorted key order
SelectMaxOverlap(t, key, col) ==
    LET present == SelectSeq(KeyOrder, LAMBDA k : \E i \in DOMAIN t.rows : t.rows[i][key] = V(k))
        Group(k) == {i \in DOMAIN t.rows : t.rows[i][key] = V(k)}
    IN  [cols |-> t.cols,
         rows |-> [n \in DOMAIN present |-> t.rows[idxmax(t, Group(present[n]), col)]]]

\* the gate written with >= 0.5
OverlapGateAtLeastHalf(t) ==
    /\ Len(t.rows) > 0
    /\ \A i \in DOMAIN t.rows : 2 * t.rows[i].overlap_adm1[1] >= t.rows[i].overlap_adm1[2]

\* line 64: overlap_adm1.min() > 0.5; the minimum of no rows is NaN, and
\* NaN > 0.5 is False
OverlapGate(t) ==
    /\ Len(t.rows) > 0
    /\ \A i \in DOMAIN t.rows : AboveHalf(t.rows[i].overlap_adm1)

\* --------------------------------------------------------- tabular join
TreatmentColumns == <<"shapeID", "shapeName", "treatment">>

\* the merge followed by a zero-fill of the merged table
TabularJoinFilled(gdf, tdf) ==
    fillna(DropColumns(Merge(gdf, SelectColumns(tdf, <<"shapeID", "treatment">>), "left",
                             "shapeID_adm2", "shapeID", "_x", "_y"),
                       {"shapeID"}), 0)

\* lines 74-75
TabularJoinFrame(gdf, tdf) ==
    DropColumns(Merge(gdf, SelectColumns(tdf, <<"shapeID", "treatment">>), "left",
                      "shapeID_adm2", "shapeID", "_x", "_y"),
                {"shapeID"})

\* ------------------------------------------------------ zonal statistics
id_field == "shapeID_adm2"

\* config["landcover"]["category_map"]: label -> class code
CategoryMapConfig == [forest |-> 1, urban |-> 2]

\* line 88: inverted to class code -> label
category_map ==
    [code \in {CategoryMapConfig[k] : k \in DOMAIN CategoryMapConfig} |->
        CHOOSE k \in DOMAIN CategoryMapConfig : CategoryMapConfig[k] = code]

\* the class codes a reclassified raster holds, ascending
CodeSeq == <<1, 2, 3>>

\* a masked pixel: no data, or outside the raster's extent
NoData == 0

\* line 27: a dict keyed by esa_lc_{year}, so a year listed twice is one item
RasterItems(ys) ==
    LET firsts == SelectSeq([i \in DOMAIN ys |-> i],
                            LAMBDA i : \A j \in 1 .. (i - 1) : ys[j] # ys[i])
    IN  [k \in DOMAIN firsts |-> [id |-> "esa_lc_" \o ToString(ys[firsts[k]]),
                                   year |-> ys[firsts[k]]]]

raster_items == RasterItems(years)

PixelCount(g, raster, code) == Cardinality({x \in g : raster[x] = code})

\* rasterstats remap_categories: a mapped code becomes its label, any other
\* code stays as it is
StatKey(prefix, cmap, code) ==
    prefix \o (IF code \in DOMAIN cmap THEN cmap[code] ELSE ToString(code))

\* rs.zonal_stats(categorical=True, geojson_out=True, prefix=...): one
\* feature per row; its properties are the row's and, for each class code
\* with at least one unmasked pixel touching the polygon, the pixel count
zonal_stats(t, raster, prefix, cmap) ==
    [i \in DOMAIN t.rows |->
        LET g     == t.rows[i].geometry[1]
            codes == SelectSeq(CodeSeq, LAMBDA c : PixelCount(g, raster, c) > 0)
        IN  [row   |-> t.rows[i],
             keys  |-> [k \in DOMAIN codes |-> StatKey(prefix, cmap, codes[k])],
             stats |-> [n \in {StatKey(prefix, cmap, codes[k]) : k \in DOMAIN codes} |->
                          V(PixelCount(g, raster,
                              CHOOSE c \in Range(codes) : StatKey(prefix, cmap, c) = n))]]]

RECURSIVE FirstSeen(_, _)
FirstSeen(seen, names) ==
    IF Len(names) = 0 THEN seen
    ELSE FirstSeen(IF Head(names) \in Range(seen) THEN seen ELSE Append(seen, Head(names)),
                   Tail(names))

\* GeoDataFrame.from_features: geometry, then every property key in order of
\* first appearance; a key a feature lacks is NaN in its row
from_features(fs, tcols) ==
    LET props    == SelectSeq(tcols, LAMBDA c : c # "geometry")
        statcols == FirstSeen(<<>>, Flatten([i \in DOMAIN fs |-> fs[i].keys]))
        cols     == FirstSeen(<<"geometry">> \o props, statcols)
    IN  [cols |-> cols,
         rows |-> [i \in DOMAIN fs |->
                     [c \in Range(cols) |->
                        IF c \in DOMAIN fs[i].stats THEN fs[i].stats[c]
                        ELSE IF c \in DOMAIN fs[i].row THEN fs[i].row[c]
                        ELSE NaN]]]

\* line 111 without the filter
KeepAllColumns(tmpcols, basecols) == tmpcols

\* line 111
KeepColumns(tmpcols, basecols) ==
    SelectSeq(tmpcols, LAMBDA c : c \notin Range(basecols) \/ c = id_field)

\* lines 99-111 for one raster
ZonalFrame(gdf, raster, raster_id, basecols) ==
    LET tmp_stats == zonal_stats(gdf, raster, raster_id \o "_", category_map)
        tmp_gdf   == fillna(from_features(tmp_stats, gdf.cols), 0)
    IN  SelectColumns(tmp_gdf, KeepColumns(tmp_gdf.cols, basecols))

\* line 116: reduce(lambda left, right: pd.merge(left, right, on=id_field, how="inner"))
RECURSIVE Reduce(_, _)
Reduce(acc, rest) ==
    IF Len(rest) = 0 THEN acc
    ELSE Reduce(Merge(acc, Head(rest), "inner", id_field, id_field, "_x", "_y"), Tail(rest))

FoldResults(rs) == Reduce(Head(rs), Tail(rs))

\* ---------------------------------------------------------------- export
NoFile == [written |-> FALSE, data |-> EmptyFrame]

\* line 129
CsvFile(gdf) ==
    [written |-> TRUE,
     data |-> SelectColumns(gdf, SelectSeq(gdf.cols, LAMBDA c : c # "geometry"))]

\* line 132
GeojsonFile(gdf) == [written |-> TRUE, data |-> gdf]

\* ------------------------------------------------ 3_integrate.py, steps
Fail(e) == pc' = "failed" /\ err' = e

UnusedColumns == {"shapeISO", "shapeGroup", "shapeType"}

\* lines 38-57
SpatialJoin ==
    /\ pc = "spatial_join"
    /\ adm1_gdf' = DropColumns(adm1_file, UnusedColumns)
    /\ adm2_gdf' = SpatialJoinFrame(DropColumns(adm2_file, UnusedColumns), adm1_gdf')
    /\ pc' = "select"
    /\ UNCHANGED <<fvars, inputs, err, treatment_df, results, output_gdf, csv_out, geojson_out>>

\* line 57 when the join found no pair: apply over no rows yields a frame, not
\* a column, and pandas may refuse to assign it
SpatialJoinEmptyRaises ==
    /\ pc = "spatial_join"
    /\ adm1_gdf' = DropColumns(adm1_file, UnusedColumns)
    /\ adm2_gdf' = JoinedFrame(DropColumns(adm2_file, UnusedColumns), adm1_gdf')
    /\ Len(adm2_gdf'.rows) = 0
    /\ Fail("ValueError")
    /\ UNCHANGED <<fvars, inputs, treatment_df, results, output_gdf, csv_out, geojson_out>>

\* line 61
SelectMax ==
    /\ pc = "select"
    /\ adm2_gdf' = SelectMaxOverlap(adm2_gdf, "shapeID_adm2", "overlap_adm1")
    /\ pc' = "gate"
    /\ UNCHANGED <<fvars, inputs, err, adm1_gdf, treatment_df, results, output_gdf, csv_out, geojson_out>>

\* line 64, the assertion holds
GatePass ==
    /\ pc = "gate"
    /\ OverlapGate(adm2_gdf)
    /\ pc' = "tabular_join"
    /\ UNCHANGED <<fvars, inputs, err, adm2_gdf, adm1_gdf, treatment_df, results, output_gdf,
                   csv_out, geojson_out>>

\* line 64, the assertion fails
GateFail ==
    /\ pc = "gate"
    /\ ~OverlapGate(adm2_gdf)
    /\ Fail("AssertionError")
    /\ UNCHANGED <<fvars, inputs, adm2_gdf, adm1_gdf, treatment_df, results, output_gdf,
                   csv_out, geojson_out>>

\* lines 71-93
TabularJoin ==
    /\ pc = "tabular_join"
    /\ treatment_df' = treatment_file
    /\ adm2_gdf' = TabularJoinFrame(adm2_gdf, treatment_df')
    /\ results' = <<adm2_gdf'>>
    /\ pc' = "zonal"
    /\ UNCHANGED <<fvars, inputs, err, adm1_gdf, output_gdf, csv_out, geojson_out>>

\* lines 98-112, one iteration
ZonalStats ==
    /\ pc = "zonal"
    /\ Len(results) <= Len(raster_items)
    /\ LET item == raster_items[Len(results)]
       IN  /\ Len(raster_files[item.year]) > 0
           /\ results' = Append(results,
                  ZonalFrame(adm2_gdf, raster_files[item.year], item.id, results[1].cols))
    /\ UNCHANGED <<fvars, inputs, pc, err, adm2_gdf, adm1_gdf, treatment_df, output_gdf,
                   csv_out, geojson_out>>

\* lines 99-106 when the raster file does not exist
ZonalStatsNoRaster ==
    /\ pc = "zonal"
    /\ Len(results) <= Len(raster_items)
    /\ Len(raster_files[raster_items[Len(results)].year]) = 0
    /\ Fail("RasterioIOError")
    /\ UNCHANGED <<fvars, inputs, adm2_gdf, adm1_gdf, treatment_df, results, output_gdf,
                   csv_out, geojson_out>>

\* lines 116-119; drop raises KeyError when the column is not there
Fold ==
    /\ pc = "zonal"
    /\ Len(results) > Len(raster_items)
    /\ LET merged == FoldResults(results)
       IN  IF "geometry_adm1" \in Range(merged.cols)
           THEN /\ output_gdf' = DropColumns(merged, {"geometry_adm1"})
                /\ pc' = "export_csv"
                /\ err' = err
           ELSE /\ output_gdf' = merged
                /\ Fail("KeyError")
    /\ UNCHANGED <<fvars, inputs, adm2_gdf, adm1_gdf, treatment_df, results, csv_out, geojson_out>>

\* lines 126-129
ExportCsv ==
    /\ pc = "export_csv"
    /\ csv_out' = CsvFile(output_gdf)
    /\ pc' = "export_geojson"
    /\ UNCHANGED <<fvars, inputs, err, adm2_gdf, adm1_gdf, treatment_df, results, output_gdf,
                   geojson_out>>

\* line 129 when the write fails
ExportCsvFails ==
    /\ pc = "export_csv"
    /\ Fail("OSError")
    /\ UNCHANGED <<fvars, inputs, adm2_gdf, adm1_gdf, treatment_df, results, output_gdf,
                   csv_out, geojson_out>>

\* line 132
ExportGeojson ==
    /\ pc = "export_geojson"
    /\ geojson_out' = GeojsonFile(output_gdf)
    /\ pc' = "done"
    /\ UNCHANGED <<fvars, inputs, err, adm2_gdf, adm1_gdf, treatment_df, results, output_gdf,
                   csv_out>>

\* line 132 when the write fails
ExportGeojsonFails ==
    /\ pc = "export_geojson"
    /\ Fail("OSError")
    /\ UNCHANGED <<fvars, inputs, adm2_gdf, adm1_gdf, treatment_df, results, output_gdf,
                   csv_out, geojson_out>>

Integrate ==
    \/ SpatialJoin \/ SpatialJoinEmptyRaises \/ SelectMax \/ GatePass \/ GateFail
    \/ TabularJoin \/ ZonalStats \/ ZonalStatsNoRaster \/ Fold
    \/ ExportCsv \/ ExportCsvFails \/ ExportGeojson \/ ExportGeojsonFails

\* ------------------------------------------------------ input envelopes
FineLayers == {LayerFile(FineIds, <<g1, g2>>) : g1 \in Polygons, g2 \in Polygons}

CoarseLayers == {LayerFile(CoarseIds, <<g1, g2>>) : g1 \in Polygons, g2 \in Polygons}

AllLayerPairs == FineLayers \X CoarseLayers

\* A inside X, B mostly inside X and partly inside Y
GoodLayers == <<LayerFile(FineIds, <<{1}, Cells>>),
                LayerFile(CoarseIds, <<1 .. (NCells - 1), {NCells}>>)>>

\* B lies half in X and half in Y
HalfLayers == <<LayerFile(FineIds, <<{1}, {1, 2}>>),
                LayerFile(CoarseIds, <<{1}, {2}>>)>>

\* no ADM2 polygon meets an ADM1 polygon
DisjointLayers == <<LayerFile(FineIds, <<{1}, {1}>>),
                    LayerFile(CoarseIds, <<{NCells}, {NCells}>>)>>

FewLayerPairs == {GoodLayers, HalfLayers, DisjointLayers}

TreatmentRecords ==
    {[shapeID |-> V(id), shapeName |-> V(id), treatment |-> V(t)] :
        id \in Range(FineIds), t \in {0, 1}}

TreatmentFile(rows) == [cols |-> TreatmentColumns, rows |-> rows]

TreatmentTables ==
    {TreatmentFile(r) : r \in UNION {[1 .. n -> TreatmentRecords] : n \in 0 .. MaxTreat}}

\* A treated, B without a treatment row
FewTreatmentTables ==
    {TreatmentFile(<<[shapeID |-> V("A"), shapeName |-> V("A"), treatment |-> V(1)]>>)}

\* two years whose decimal forms differ in length
YearSet == {1, 13}

YearLists == UNION {[1 .. n -> YearSet] : n \in 0 .. MaxYears}

FewYearLists == {<<1>>}

MissingRaster == <<>>

Rasters == [Cells -> {NoData, 1, 2}] \cup {MissingRaster}

\* forest on cell 1, an unmapped class on the last cell, nothing between
SampleRaster == [c \in Cells |-> IF c = 1 THEN 1 ELSE IF c = NCells THEN 3 ELSE NoData]

FewRasters == {SampleRaster, MissingRaster}

IntegrateInit(LayerPairs, Treatments, Years, RasterSet) ==
    /\ \E lp \in LayerPairs : adm2_file = lp[1] /\ adm1_file = lp[2]
    /\ treatment_file \in Treatments
    /\ years \in Years
    /\ raster_files \in [Range(years) -> RasterSet]
    /\ pc = "spatial_join"
    /\ err = ""
    /\ adm2_gdf = EmptyFrame
    /\ adm1_gdf = EmptyFrame
    /\ treatment_df = EmptyFrame
    /\ results = <<>>
    /\ output_gdf = EmptyFrame
    /\ csv_out = NoFile
    /\ geojson_out = NoFile

\* -------------------------------------------------- 1_boundary.py
\* what the geoBoundaries API lists (line 88)
api_data == <<[boundaryISO |-> "TGO", boundaryType |-> "ADM0"],
              [boundaryISO |-> "GHA", boundaryType |-> "ADM2"],
              [boundaryISO |-> "GHA", boundaryType |-> "ADM1"]>>

\* Python order of the ISO codes
IsoOrder == <<"GHA", "TGO">>

\* lines 90-96: filter by the ISO3 list when one is given, then a stable
\* sort by boundaryISO
prepare(data, iso3_list) ==
    LET kept == IF Len(iso3_list) > 0
                THEN SelectSeq(data, LAMBDA i : i.boundaryISO \in Range(iso3_list))
                ELSE data
    IN  Flatten([k \in DOMAIN IsoOrder |->
                   SelectSeq(kept, LAMBDA i : i.boundaryISO = IsoOrder[k])])

\* line 135: the stem of gjDownloadURL
fname(item) == "geoBoundaries-" \o item.boundaryISO \o "-" \o item.boundaryType

FNames == {fname(api_data[i]) : i \in DOMAIN api_data}

\* line 145
SkipExisting(files, f, overwrite) ==
    /\ <<f, ".gpkg">> \in files
    /\ <<f, ".geojson">> \in files
    /\ <<f, ".meta.json">> \in files
    /\ ~overwrite

\* lines 173-183: the polygon file and the metadata sidecar
WrittenFiles(f) == {<<f, ".geojson">>, <<f, ".meta.json">>}

BUnchanged == UNCHANGED <<ivars, lvars>>

\* the script starts: config read, lines 193-195
BMainStart ==
    /\ bpc \in {"idle", "done", "raised"}
    /\ bruns < MaxRuns
    /\ bruns' = bruns + 1
    /\ overwrite_existing' \in BOOLEAN
    /\ dl_iso3_list' \in {<<>>, <<"GHA">>}
    /\ ingest_items' = prepare(api_data, dl_iso3_list')
    /\ bitem' = 1
    /\ bpc' = "loop"
    /\ UNCHANGED <<bfiles, bdownloads, blog>>
    /\ BUnchanged

InLoop == bpc = "loop" /\ bitem <= Len(ingest_items)

CurrentName == fname(ingest_items[bitem])

\* dl_gb_item returns at line 147
BSkip ==
    /\ InLoop
    /\ SkipExisting(bfiles, CurrentName, overwrite_existing)
    /\ blog' = "Skipping existing file"
    /\ bitem' = bitem + 1
    /\ UNCHANGED <<bfiles, overwrite_existing, dl_iso3_list, ingest_items, bpc,
                   bdownloads, bruns>>
    /\ BUnchanged

Downloading ==
    /\ InLoop
    /\ ~SkipExisting(bfiles, CurrentName, overwrite_existing)
    /\ bdownloads' = [bdownloads EXCEPT ![CurrentName] = @ + 1]

\* lines 149-183: read_file, or the JSON fallback of lines 158-159, delivers
BDownload ==
    /\ Downloading
    /\ bfiles' = bfiles \cup WrittenFiles(CurrentName)
    /\ blog' = "Processing geoBoundaries item"
    /\ bitem' = bitem + 1
    /\ UNCHANGED <<overwrite_existing, dl_iso3_list, ingest_items, bpc, bruns>>
    /\ BUnchanged

\* lines 152-155: read_file raises and the URL answers 404
BNotFound ==
    /\ Downloading
    /\ blog' = "404"
    /\ bitem' = bitem + 1
    /\ UNCHANGED <<bfiles, overwrite_existing, dl_iso3_list, ingest_items, bpc, bruns>>
    /\ BUnchanged

\* lines 156-162: read_file raises, the URL answers, the fallback raises
BFallbackFails ==
    /\ Downloading
    /\ blog' = "Failed to download"
    /\ bitem' = bitem + 1
    /\ UNCHANGED <<bfiles, overwrite_existing, dl_iso3_list, ingest_items, bpc, bruns>>
    /\ BUnchanged

\* line 153: read_file raises and requests.get raises too (no connection);
\* the call is inside the except block and outside the inner try, so the
\* exception leaves dl_gb_item and the loop of main
BUnreachable ==
    /\ Downloading
    /\ bpc' = "raised"
    /\ blog' = "Processing geoBoundaries item"
    /\ UNCHANGED <<bfiles, overwrite_existing, dl_iso3_list, ingest_items, bitem, bruns>>
    /\ BUnchanged

\* line 202
BMainFinish ==
    /\ bpc = "loop"
    /\ bitem > Len(ingest_items)
    /\ bpc' = "done"
    /\ UNCHANGED <<bfiles, overwrite_existing, dl_iso3_list, ingest_items, bitem,
                   bdownloads, bruns, blog>>
    /\ BUnchanged

Boundary ==
    \/ BMainStart \/ BSkip \/ BDownload \/ BNotFound \/ BFallbackFails
    \/ BUnreachable \/ BMainFinish

\* ------------------------------------------------- 2_landcover.py
LUnchanged == UNCHANGED <<ivars, bvars>>

\* line 82
NeedsRetrieve(files, year, overwrite) == <<year, "zip">> \notin files \/ overwrite

\* line 122
ProcessedExists(files, year, overwrite) == <<year, "tif">> \in files /\ ~overwrite

\* the script starts: config read, lines 171-177
LMainStart ==
    /\ lpc \in {"idle", "done", "raised"}
    /\ lruns < MaxRuns
    /\ lruns' = lruns + 1
    /\ overwrite_download' \in BOOLEAN
    /\ overwrite_processing' \in BOOLEAN
    /\ lyear' = 1
    /\ lpc' = "download"
    /\ UNCHANGED lfiles
    /\ LUnchanged

\* download(year), lines 67-112: retrieve when needed, then extract
LDownload ==
    /\ lpc = "download"
    /\ lyear <= Len(years)
    /\ lfiles' = lfiles \cup {<<years[lyear], "zip">>, <<years[lyear], "nc">>}
    /\ lyear' = lyear + 1
    /\ UNCHANGED <<overwrite_download, overwrite_processing, lpc, lruns>>
    /\ LUnchanged

\* lines 89-91: retrieve raises (not found, no connection); nothing in
\* download or in the loop of main catches it
LRetrieveRaises ==
    /\ lpc = "download"
    /\ lyear <= Len(years)
    /\ NeedsRetrieve(lfiles, years[lyear], overwrite_download)
    /\ lpc' = "raised"
    /\ UNCHANGED <<lfiles, overwrite_download, overwrite_processing, lyear, lruns>>
    /\ LUnchanged

\* lines 184-192
LDownloadsDone ==
    /\ lpc = "download"
    /\ lyear > Len(years)
    /\ lpc' = "process"
    /\ lyear' = 1
    /\ UNCHANGED <<lfiles, overwrite_download, overwrite_processing, lruns>>
    /\ LUnchanged

\* process, lines 114-165
LProcess ==
    /\ lpc = "process"
    /\ lyear <= Len(years)
    /\ lfiles' = IF ProcessedExists(lfiles, years[lyear], overwrite_processing)
                 THEN lfiles
                 ELSE lfiles \cup {<<years[lyear], "tif">>}
    /\ lyear' = lyear + 1
    /\ UNCHANGED <<overwrite_download, overwrite_processing, lpc, lruns>>
    /\ LUnchanged

\* line 197
LMainFinish ==
    /\ lpc = "process"
    /\ lyear > Len(years)
    /\ lpc' = "done"
    /\ UNCHANGED <<lfiles, overwrite_download, overwrite_processing, lyear, lruns>>
    /\ LUnchanged

Landcover ==
    \/ LMainStart \/ LDownload \/ LRetrieveRaises \/ LDownloadsDone \/ LProcess
    \/ LMainFinish

\* the integration script is not running
IntegrateIdle ==
    /\ adm2_file = EmptyFrame /\ adm1_file = EmptyFrame /\ treatment_file = EmptyFrame
    /\ raster_files = <<>> /\ pc = "off" /\ err = ""
    /\ adm2_gdf = EmptyFrame /\ adm1_gdf = EmptyFrame /\ treatment_df = EmptyFrame
    /\ results = <<>> /\ output_gdf = EmptyFrame /\ csv_out = NoFile /\ geojson_out = NoFile

\* one of the two fetch scripts is about to run; the output directory may
\* hold .gpkg files (data/treatment/create_treatment.py reads one)
FetchInit ==
    /\ IntegrateIdle
    /\ years \in YearLists
    /\ bfiles \in SUBSET {<<f, ".gpkg">> : f \in FNames}
    /\ overwrite_existing = FALSE /\ dl_iso3_list = <<>> /\ ingest_items = <<>>
    /\ bitem = 0 /\ bdownloads = [f \in FNames |-> 0] /\ bruns = 0 /\ blog = ""
    /\ lfiles = {} /\ overwrite_download = FALSE /\ overwrite_processing = FALSE
    /\ lyear = 0 /\ lruns = 0
    /\ \/ bpc = "idle" /\ lpc = "off"
       \/ bpc = "off" /\ lpc = "idle" /\ bfiles = {}

FetchNext == Boundary \/ Landcover

FetchSpec == FetchInit /\ [][FetchNext]_vars

\* 1_boundary.py alone, with a remote that always answers
BoundaryOnline ==
    \/ BMainStart \/ BSkip \/ BDownload \/ BNotFound \/ BFallbackFails \/ BMainFinish

FetchInitOnline == FetchInit /\ bpc = "idle"

FetchSpecOnline == FetchInitOnline /\ [][BoundaryOnline]_vars

\* the fetchers are not running
FetchIdle ==
    /\ bfiles = {} /\ overwrite_existing = FALSE /\ dl_iso3_list = <<>>
    /\ ingest_items = <<>> /\ bpc = "off" /\ bitem = 0 /\ bdownloads = <<>> /\ bruns = 0
    /\ blog = ""
    /\ lfiles = {} /\ overwrite_download = FALSE /\ overwrite_processing = FALSE
    /\ lpc = "off" /\ lyear = 0 /\ lruns = 0

Init == IntegrateInit(AllLayerPairs, FewTreatmentTables, FewYearLists, FewRasters) /\ FetchIdle

InitTabular == IntegrateInit(FewLayerPairs, TreatmentTables, FewYearLists, FewRasters) /\ FetchIdle

InitZonal ==
    /\ \/ IntegrateInit({GoodLayers}, FewTreatmentTables, YearLists, Rasters)
       \/ IntegrateInit(FewLayerPairs, FewTreatmentTables, FewYearLists, FewRasters)
    /\ FetchIdle

Next == Integrate

Spec == Init /\ [][Next]_vars

SpecTabular == InitTabular /\ [][Next]_vars

SpecZonal == InitZonal /\ [][Next]_vars

\* ---------------------------------------------------------------- claims
PastGate == {"tabular_join", "zonal", "export_csv", "export_geojson", "done"}

Exporting == {"export_csv", "export_geojson", "done"}

SelectionDone == pc \in PastGate \/ (pc = "failed" /\ err # "ValueError")

\* C1: when a selected overlap fraction is <= 0.5 the run ends at the gate
\* with an error and neither output file is written; in every run that
\* reaches the export stage every selected fraction is > 0.5.
C1_OverlapGate ==
    /\ (SelectionDone /\ \E i \in DOMAIN adm2_gdf.rows : ~AboveHalf(adm2_gdf.rows[i].overlap_adm1))
         => (pc = "failed" /\ err = "AssertionError"
             /\ ~csv_out.written /\ ~geojson_out.written)
    /\ (pc \in Exporting \/ csv_out.written \/ geojson_out.written)
         => \A i \in DOMAIN output_gdf.rows : AboveHalf(output_gdf.rows[i].overlap_adm1)

\* the gate stopped a run whose polygon B lies exactly half in its parent
C1_Witness ==
    /\ pc = "failed" /\ err = "AssertionError"
    /\ \E i \in DOMAIN adm2_gdf.rows :
          2 * adm2_gdf.rows[i].overlap_adm1[1] = adm2_gdf.rows[i].overlap_adm1[2]
    /\ ~csv_out.written /\ ~geojson_out.written

FineGeometry(p) == adm2_file.rows[p].geometry[1]

CoarseGeometry(j) == adm1_file.rows[j].geometry[1]

Candidates(p) == {j \in DOMAIN adm1_file.rows : Intersects(FineGeometry(p), CoarseGeometry(j))}

SharedArea(p, j) == Area(Intersection(FineGeometry(p), CoarseGeometry(j)))

\* C2: after selection every ADM2 polygon that intersects an ADM1 polygon
\* has exactly one row; its overlap is area(p /\ parent) / area(p), no other
\* candidate has a greater fraction, and of the candidates that share the
\* maximum the first in join order is the parent.
C2_Selection ==
    pc \in {"gate", "tabular_join"} =>
        \A p \in DOMAIN adm2_file.rows :
            Candidates(p) # {} =>
                /\ Cardinality({i \in DOMAIN adm2_gdf.rows :
                       adm2_gdf.rows[i].shapeID_adm2 = adm2_file.rows[p].shapeID}) = 1
                /\ \E i \in DOMAIN adm2_gdf.rows, j \in Candidates(p) :
                       /\ adm2_gdf.rows[i].shapeID_adm2 = adm2_file.rows[p].shapeID
                       /\ adm2_gdf.rows[i].shapeID_adm1 = adm1_file.rows[j].shapeID
                       /\ adm2_gdf.rows[i].overlap_adm1[2] > 0
                       /\ adm2_gdf.rows[i].overlap_adm1[1] * Area(FineGeometry(p))
                             = SharedArea(p, j) * adm2_gdf.rows[i].overlap_adm1[2]
                       /\ \A k \in Candidates(p) : SharedArea(p, k) <= SharedArea(p, j)
                       /\ \A k \in Candidates(p) :
                             SharedArea(p, k) = SharedArea(p, j) => j <= k

\* selection has acted on a polygon with two candidates that tie at a
\* positive fraction, and the first of them is its parent
C2_Witness ==
    /\ pc = "gate"
    /\ \E p \in DOMAIN adm2_file.rows, i \in DOMAIN adm2_gdf.rows :
          /\ Candidates(p) = {1, 2}
          /\ SharedArea(p, 1) = SharedArea(p, 2)
          /\ SharedArea(p, 1) > 0
          /\ CoarseGeometry(1) # CoarseGeometry(2)
          /\ adm2_gdf.rows[i].shapeID_adm2 = adm2_file.rows[p].shapeID
          /\ adm2_gdf.rows[i].shapeID_adm1 = adm1_file.rows[1].shapeID

InOutput(p) ==
    \E i \in DOMAIN geojson_out.data.rows :
        geojson_out.data.rows[i].shapeID_adm2 = adm2_file.rows[p].shapeID

\* C3: a run never completes with an output that lacks an ADM2 polygon of
\* the input layer; a polygon that intersects no ADM1 polygon ends the run
\* with an error and no output.
C3_NoSilentDrop ==
    /\ pc = "done" => \A p \in DOMAIN adm2_file.rows : InOutput(p)
    /\ (\E p \in DOMAIN adm2_file.rows : Candidates(p) = {})
          => (~csv_out.written /\ ~geojson_out.written)

\* C4: the treatment merge returns exactly as many rows as the table it
\* was given.
C4_RowsPreserved ==
    [][pc = "tabular_join" => Len(adm2_gdf'.rows) = Len(adm2_gdf.rows)]_vars

HasDuplicateKey(t) ==
    \E i, j \in DOMAIN t.rows : i # j /\ t.rows[i].shapeID = t.rows[j].shapeID

\* C5: a treatment table with two rows for one shapeID ends the run with an
\* error at the merge, before anything is exported.
C5_DuplicateRejected ==
    HasDuplicateKey(treatment_file) =>
        (pc \notin {"zonal"} \cup Exporting /\ ~csv_out.written /\ ~geojson_out.written)

RasterOf(item) == raster_files[item.year]

\* C6: every output row has, for every raster and every label of the
\* category map, a column {raster}_{label} holding the number of pixels of
\* that category that touch the polygon, 0 when there are none.
C6_ZeroFill ==
    pc \in Exporting =>
        \A n \in DOMAIN raster_items, label \in DOMAIN CategoryMapConfig,
           i \in DOMAIN output_gdf.rows :
            /\ (raster_items[n].id \o "_" \o label) \in Range(output_gdf.cols)
            /\ output_gdf.rows[i][raster_items[n].id \o "_" \o label]
                 = V(PixelCount(output_gdf.rows[i].geometry[1], RasterOf(raster_items[n]),
                                CategoryMapConfig[label]))

Folded == Len(output_gdf.cols) > 0

ResultColumns == UNION {Range(results[k].cols) : k \in DOMAIN results}

BaseColumns == Range(results[1].cols) \ {"geometry_adm1"}

\* C7: the folded table has no column twice and no column renamed with a
\* merge suffix; a column of a zonal result that is already in the base
\* table or in an earlier zonal result, other than the key, is not in that
\* result; every value of the base table and of each zonal result is in the
\* folded table as it was.
C7_NoColumnCollision ==
    Folded =>
        /\ NoDuplicates(output_gdf.cols)
        /\ \A c \in ResultColumns :
              (c \o "_x") \notin Range(output_gdf.cols)
              /\ (c \o "_y") \notin Range(output_gdf.cols)
        /\ Range(output_gdf.cols) = ResultColumns \ {"geometry_adm1"}
        /\ \A k \in DOMAIN results : \A j \in 1 .. (k - 1) :
              Range(results[k].cols) \cap Range(results[j].cols) \subseteq {id_field}
        /\ \A i \in DOMAIN output_gdf.rows :
              /\ \E b \in DOMAIN results[1].rows :
                    \A c \in BaseColumns : output_gdf.rows[i][c] = results[1].rows[b][c]
              /\ \A k \in 2 .. Len(results) :
                    \E q \in DOMAIN results[k].rows :
                        \A c \in Range(results[k].cols) :
                            output_gdf.rows[i][c] = results[k].rows[q][c]

\* two rasters with the same category were folded, and polygon B kept its
\* missing treatment
C7_Witness ==
    /\ pc = "done"
    /\ Len(results) = 3
    /\ {"esa_lc_1_forest", "esa_lc_13_forest"} \subseteq Range(output_gdf.cols)
    /\ \E i \in DOMAIN output_gdf.rows : isna(output_gdf.rows[i].treatment)

\* C8: a run that has ended has written both output files or neither.
C8_NoPartialOutput ==
    pc \in {"done", "failed"} => (csv_out.written <=> geojson_out.written)

\* C9: a call of dl_gb_item for an item whose polygon file and metadata
\* sidecar exist starts no download while overwrite_existing is False.
C9_Idempotent ==
    [][\A f \in FNames :
          (WrittenFiles(f) \subseteq bfiles /\ ~overwrite_existing)
              => bdownloads'[f] = bdownloads[f]]_vars

\* C10: no failure to fetch one item ends either fetch run; every run
\* goes through all of its items.
C10_SkipItem == bpc # "raised" /\ lpc # "raised"

\* the ADM2 polygons that enter the treatment merge without a treatment row:
\* they meet an ADM1 polygon and no row of the treatment file has their id
Untreated ==
    {p \in DOMAIN adm2_file.rows :
        /\ Candidates(p) # {}
        /\ \A k \in DOMAIN treatment_file.rows :
              treatment_file.rows[k].shapeID # adm2_file.rows[p].shapeID}

RowsOf(t, p) == {i \in DOMAIN t.rows : t.rows[i].shapeID_adm2 = adm2_file.rows[p].shapeID}

KeepsMissing(t) ==
    \A p \in Untreated :
        /\ RowsOf(t, p) # {}
        /\ "treatment" \in Range(t.cols)
        /\ \A i \in RowsOf(t, p) : isna(t.rows[i].treatment)

IdColumn(t) == [i \in DOMAIN t.rows |-> t.rows[i].shapeID_adm2]

\* C12: in a run that ends with both files written, the folded table has
\* no ADM2 polygon id on two rows, and the two files hold the same ids in
\* the same order, each once.
C12_OneRowPerPolygon ==
    pc = "done" =>
        /\ NoDuplicates(IdColumn(output_gdf))
        /\ NoDuplicates(IdColumn(geojson_out.data))
        /\ IdColumn(csv_out.data) = IdColumn(geojson_out.data)

====
